---- MODULE Spec2Model ----
(***************************************************************************)
(* Session / token lifecycle of the ENT portal front end.                  *)
(*                                                                         *)
(* KeycloakProvider (frontend2/src/KeycloakProvider.js) holds the React    *)
(* state isAuthenticated / token / error / loading, persists the access    *)
(* token and the refresh token in localStorage, and exposes a "keycloak"   *)
(* object to its children.  App (embedded in docker-compose2.yml) installs *)
(* a 30 s interval that calls keycloak.updateToken.                        *)
(*                                                                         *)
(* JavaScript handlers run to completion, so each handler (and each        *)
(* continuation after an await) is one action.  The only suspension points *)
(* are the axios.post calls to the identity provider: a request in flight  *)
(* is an element of inflight, and its completion is a separate action.     *)
(***************************************************************************)
EXTENDS Integers, Sequences, FiniteSets, TLC

VARIABLES
    phase,            \* "constructed": useState initial values, mount effect not run yet; "running"
    store,            \* localStorage: [token, refresh_token]
    isAuthenticated,  \* useState(false)
    token,            \* useState(null)
    error,            \* useState('')
    loading,          \* useState(false)
    inflight,         \* sequence of identity-provider requests that have not completed
    rendered,         \* what the provider last rendered: login form, or children with the context value
    timers,           \* number of active setInterval timers of App
    now,              \* wall clock, ms
    nextId,           \* identity of the next token pair the identity provider issues
    lastOp,           \* history: the handler that ran last
    everLoggedIn,     \* history: a login has succeeded
    loggedOutSeen,    \* history: a logout()/forced logout has run since the page was loaded
    logoutNotifs,     \* history: transitions into LoggedOut seen by the children since they were last mounted
    api,              \* requests of App to the downstream services that have not completed
    lastSent          \* history: the downstream requests sent by the handler that ran last

vars == <<phase, store, isAuthenticated, token, error, loading, inflight,
          rendered, timers, now, nextId, lastOp, everLoggedIn, loggedOutSeen,
          logoutNotifs, api, lastSent>>

----------------------------------------------------------------------------
(* Bounds *)

MaxTicks == 4       \* the clock advances at most this many timer intervals
MaxInflight == 2    \* refresh requests simultaneously in flight
MaxTokens == 3      \* token pairs the identity provider issues
MaxApi == 1         \* downstream requests whose responses are followed at the same time
MaxApiTicks == 0    \* downstream requests are followed during this many timer intervals

(* Program constants *)

Margin == 300000    \* checkTokenValidity: expiryTime - currentTime < 300000
Interval == 30000   \* App: setInterval(..., 30000)

----------------------------------------------------------------------------
(* Values *)

NoExp == -1         \* payload without an exp claim
NoRefresh == -1     \* absent refresh_token entry

\* Lifetimes (seconds) of the access tokens the identity provider issues:
\* one already inside the 5 minute margin, one that enters it after two intervals.
Lifetimes == {60, 360}

\* Shape of an access token string.
\*   segs : number of '.'-separated segments
\*   enc  : "b64"    middle segment uses only the base64 alphabet and is JSON
\*          "b64url" middle segment is base64url and contains '-' or '_'
\*          "bad"    middle segment is not decodable / not JSON
\*   exp  : the exp claim in epoch seconds, NoExp when the claim is missing
WellFormed(exp) == [segs |-> 3, enc |-> "b64", exp |-> exp]
UrlEncoded(exp) == [segs |-> 3, enc |-> "b64url", exp |-> exp]
Garbage == [segs |-> 3, enc |-> "bad", exp |-> NoExp]
OneSegment == [segs |-> 1, enc |-> "b64", exp |-> NoExp]
MissingExp == [segs |-> 3, enc |-> "b64", exp |-> NoExp]

\* Shapes the identity provider answers with at time t (ms).
IssuedShapes(t) ==
    {WellFormed((t \div 1000) + l) : l \in Lifetimes}
        \cup {UrlEncoded((t \div 1000) + l) : l \in {360}}
        \cup {Garbage}

\* Shapes of an access token found in localStorage when the page is first loaded.
StoredShapes ==
    {WellFormed(l) : l \in Lifetimes} \cup {Garbage, OneSegment, MissingExp}

AccessToken(id, shape) == [id |-> id, shape |-> shape]

\* JavaScript null / absent localStorage entry for the access token.
NoToken == [id |-> -1, shape |-> [segs |-> 0, enc |-> "none", exp |-> NoExp]]

EmptyStore == [token |-> NoToken, refresh_token |-> NoRefresh]

\* A request to the identity provider.
\*   kind  : "login"   password grant sent by login()
\*           "startup" refresh grant sent by refreshToken() from checkTokenValidity
\*           "timer"   refresh grant sent by keycloak.updateToken()
\*   rt    : refresh token sent (NoRefresh for a password grant)
\*   stale : history, logout() has run since the request was sent
Request(kind, rt) == [kind |-> kind, rt |-> rt, stale |-> FALSE]
NoReq == [kind |-> "none", rt |-> NoRefresh, stale |-> FALSE]

RefreshKinds == {"startup", "timer"}

\* A request of App to a downstream service.
\*   kind   : "files"  GET /files   sent by fetchFiles
\*            "role"   GET /users/me sent by fetchUserRole
\*            "upload" POST /upload sent by handleUpload
\*   bearer : the Authorization header, built from keycloak.token of the
\*            render whose closure sent the request
\* Requests in flight form a set: two requests of the same kind with the
\* same header are not told apart.
ApiRequest(kind, bearer) == [kind |-> kind, bearer |-> bearer]

\* `Bearer ${keycloak?.token}`: the header names the access token; a token
\* string is identified by its id (the stored token of the first page load
\* and every token issued afterwards have different ids).
Bearer(tok) == tok.id

\* Downstream traffic is followed while the clock is within the first
\* MaxApiTicks intervals.
InApiWindow(t) == t <= MaxApiTicks * Interval

\* The requests in flight after `sent` has been sent at time t while `flying`
\* was in flight.  The responses of at most MaxApi requests are followed, and
\* only of requests sent inside the window; any other request is sent all the
\* same, but its response (which changes only the lists and messages App
\* displays) is not followed.
Follow(flying, sent, t) ==
    IF InApiWindow(t)
    THEN {flying \cup T : T \in {U \in SUBSET sent :
            /\ Cardinality(flying \cup U) <= MaxApi
            /\ (U = sent \/ Cardinality(flying \cup U) = MaxApi)}}
    ELSE {flying}

\* The requests still followed when the clock reaches t.
StillFollowed(flying, t) == IF InApiWindow(t) THEN flying ELSE {}

ApiErrors == {"Unauthorized", "Other"}

LoginErrors == {"InvalidCredentials", "NetworkUnavailable"}
RefreshErrors == {"RenewalTokenExpired", "NetworkUnavailable"}

LoginErrorMessage == "Echec de connexion"

----------------------------------------------------------------------------
(* Pure helpers *)

\* JSON.parse(atob(storedToken.split('.')[1])) throws: there is no second
\* segment (atob("undefined") is rejected), or atob meets a character outside
\* the base64 alphabet, or the payload is not JSON.
DecodeThrows(tok) == tok.shape.segs < 2 \/ tok.shape.enc # "b64"

\* expiryTime - currentTime < 300000; a missing exp gives NaN and the
\* comparison is false.
NearExpiry(tok, t) ==
    /\ tok.shape.exp # NoExp
    /\ tok.shape.exp * 1000 - t < Margin

\* Mutant of Render: the children are rendered whatever isAuthenticated is.
RenderAlwaysChildren(auth, tok) == [view |-> "app", token |-> tok]

\* The provider's return statement: the login form unless isAuthenticated,
\* else the children with the context value { keycloak }.
Render(auth, tok) ==
    IF ~auth THEN [view |-> "form", token |-> NoToken]
             ELSE [view |-> "app", token |-> tok]

\* Mutant of TimerEffect: the effect returns no cleanup, a re-render sets a
\* second interval.
TimerEffectNoCleanup(prevView, newView, n) ==
    IF newView = "app" THEN n + 1
    ELSE (IF prevView = "app" THEN n - 1 ELSE n)

\* Mutant of TimerEffect: the interval is not cleared when App is unmounted.
TimerEffectLeaksOnUnmount(prevView, newView, n) ==
    IF newView = "app"
    THEN (IF prevView = "app" THEN n - 1 ELSE n) + 1
    ELSE n

\* App's effect with dependency [keycloak]: every render of App clears the
\* interval of the previous render and sets a new one; unmounting clears it.
TimerEffect(prevView, newView, n) ==
    IF newView = "app"
    THEN (IF prevView = "app" THEN n - 1 ELSE n) + 1
    ELSE (IF prevView = "app" THEN n - 1 ELSE n)

\* Children unmounted by this render: they see the transition into LoggedOut.
Notifs(prevView, newView, n) ==
    IF prevView = "app" /\ newView = "form" THEN n + 1
    ELSE IF prevView = "form" /\ newView = "app" THEN 0
    ELSE n

RemoveAt(s, i) == [j \in 1..(Len(s) - 1) |-> IF j < i THEN s[j] ELSE s[j + 1]]

MarkStale(s) == [j \in 1..Len(s) |-> [s[j] EXCEPT !.stale = TRUE]]

NumRefreshInFlight(s) == Cardinality({j \in 1..Len(s) : s[j].kind \in RefreshKinds})

Op(name, req, err) == [op |-> name, req |-> req, err |-> err]

----------------------------------------------------------------------------
(* Initial state: the component has been constructed over whatever an     *)
(* earlier page load left in localStorage.                                *)

InitStores ==
    {EmptyStore}
        \cup {[token |-> AccessToken(0, sh), refresh_token |-> 0] : sh \in StoredShapes}
        \cup {[token |-> AccessToken(0, WellFormed(l)), refresh_token |-> NoRefresh] : l \in Lifetimes}
        \cup {[token |-> NoToken, refresh_token |-> 0]}

Init ==
    /\ phase = "constructed"
    /\ store \in InitStores
    /\ isAuthenticated = FALSE
    /\ token = NoToken
    /\ error = ""
    /\ loading = FALSE
    /\ inflight = <<>>
    /\ rendered = Render(FALSE, NoToken)
    /\ timers = 0
    /\ now = 0
    /\ nextId = 1
    /\ lastOp = Op("construct", NoReq, "")
    /\ everLoggedIn = FALSE
    /\ loggedOutSeen = FALSE
    /\ logoutNotifs = 0
    /\ api = {}
    /\ lastSent = {}

----------------------------------------------------------------------------
(* Building blocks of the handlers *)

\* App's effect with dependency [keycloak?.authenticated]: when App is
\* mounted it calls fetchFiles() and fetchUserRole(), each sending a request
\* with the token of that render.
MountFetches(prevView, newView, tok) ==
    IF prevView = "form" /\ newView = "app"
    THEN {ApiRequest("files", Bearer(tok)), ApiRequest("role", Bearer(tok))}
    ELSE {}

\* React commits the new state: the provider renders, App's effects run.
Rerender ==
    /\ rendered' = Render(isAuthenticated', token')
    /\ timers' = TimerEffect(rendered.view, rendered'.view, timers)
    /\ logoutNotifs' = Notifs(rendered.view, rendered'.view, logoutNotifs)
    /\ lastSent' = MountFetches(rendered.view, rendered'.view, rendered'.token)
    /\ api' \in Follow(api, lastSent', now)

\* Mutant of logout: setToken(null) is missing.
logoutKeepsToken ==
    /\ store' = EmptyStore
    /\ token' = token
    /\ isAuthenticated' = FALSE
    /\ loggedOutSeen' = TRUE

\* Mutant of logout: setIsAuthenticated(false) is missing.
logoutKeepsAuthenticated ==
    /\ store' = EmptyStore
    /\ token' = NoToken
    /\ isAuthenticated' = isAuthenticated
    /\ loggedOutSeen' = TRUE

\* Mutant of logout: the refresh_token entry is not removed.
logoutKeepsRefreshToken ==
    /\ store' = [store EXCEPT !.token = NoToken]
    /\ token' = NoToken
    /\ isAuthenticated' = FALSE
    /\ loggedOutSeen' = TRUE

\* logout(): remove both entries, setToken(null), setIsAuthenticated(false).
logout ==
    /\ store' = EmptyStore
    /\ token' = NoToken
    /\ isAuthenticated' = FALSE
    /\ loggedOutSeen' = TRUE

\* Mutant of saveResponse: setToken without the two setItem calls.
saveResponseSkipsStore(access_token, refresh_token) ==
    /\ store' = store
    /\ token' = access_token

\* const { access_token, refresh_token } = response.data;
\* localStorage.setItem('token', ...); localStorage.setItem('refresh_token', ...);
\* setToken(access_token)
saveResponse(access_token, refresh_token) ==
    /\ store' = [token |-> access_token, refresh_token |-> refresh_token]
    /\ token' = access_token

\* A response of the identity provider's token endpoint: a new pair.
Responses(t, id) == {[access_token |-> AccessToken(id, sh), refresh_token |-> id] : sh \in IssuedShapes(t)}

----------------------------------------------------------------------------
(* Handlers *)

\* The mount effect and the synchronous part of checkTokenValidity.
InitialEffect ==
    /\ phase = "constructed"
    /\ phase' = "running"
    /\ LET storedToken == store.token
           storedRefreshToken == store.refresh_token
       IN  IF storedToken = NoToken
           THEN UNCHANGED <<store, token, isAuthenticated, inflight, loggedOutSeen>>
           ELSE IF DecodeThrows(storedToken)
           THEN logout /\ UNCHANGED inflight
           ELSE IF NearExpiry(storedToken, now)
           THEN IF storedRefreshToken = NoRefresh
                THEN logout /\ UNCHANGED inflight
                ELSE /\ token' = storedToken
                     /\ isAuthenticated' = TRUE
                     /\ inflight' = Append(inflight, Request("startup", storedRefreshToken))
                     /\ UNCHANGED <<store, loggedOutSeen>>
           ELSE /\ token' = storedToken
                /\ isAuthenticated' = TRUE
                /\ UNCHANGED <<store, inflight, loggedOutSeen>>
    /\ lastOp' = Op("mount", NoReq, "")
    /\ UNCHANGED <<error, loading, now, nextId, everLoggedIn>>
    /\ Rerender

\* Mutant of LoginSubmit: the submit button is not disabled while loading.
LoginSubmitIgnoresLoading ==
    /\ phase = "running"
    /\ rendered.view = "form"
    /\ Cardinality({j \in 1..Len(inflight) : inflight[j].kind = "login"}) < 2
    /\ loading' = TRUE
    /\ error' = ""
    /\ inflight' = Append(inflight, Request("login", NoRefresh))
    /\ lastOp' = Op("login", NoReq, "")
    /\ UNCHANGED <<phase, store, isAuthenticated, token, now, nextId, everLoggedIn, loggedOutSeen>>
    /\ Rerender

\* The login form is submitted: login() up to the await.
LoginSubmit ==
    /\ phase = "running"
    /\ rendered.view = "form"
    /\ ~loading
    /\ loading' = TRUE
    /\ error' = ""
    /\ inflight' = Append(inflight, Request("login", NoRefresh))
    /\ lastOp' = Op("login", NoReq, "")
    /\ UNCHANGED <<phase, store, isAuthenticated, token, now, nextId, everLoggedIn, loggedOutSeen>>
    /\ Rerender

\* The password grant succeeds: login() after the await, and finally.
LoginSuccess(i) ==
    /\ inflight[i].kind = "login"
    /\ nextId <= MaxTokens
    /\ \E r \in Responses(now, nextId) :
           saveResponse(r.access_token, r.refresh_token)
    /\ isAuthenticated' = TRUE
    /\ loading' = FALSE
    /\ inflight' = RemoveAt(inflight, i)
    /\ nextId' = nextId + 1
    /\ everLoggedIn' = TRUE
    /\ lastOp' = Op("loginOk", inflight[i], "")
    /\ UNCHANGED <<phase, error, now, loggedOutSeen>>
    /\ Rerender

\* Mutant of LoginFailure: the catch also clears the session like logout().
LoginFailureClearsStore(i, err) ==
    /\ inflight[i].kind = "login"
    /\ error' = LoginErrorMessage
    /\ loading' = FALSE
    /\ inflight' = RemoveAt(inflight, i)
    /\ lastOp' = Op("loginFail", inflight[i], err)
    /\ logout
    /\ UNCHANGED <<phase, now, nextId, everLoggedIn>>
    /\ Rerender

\* The password grant fails: the catch of login(), and finally.
LoginFailure(i, err) ==
    /\ inflight[i].kind = "login"
    /\ error' = LoginErrorMessage
    /\ loading' = FALSE
    /\ inflight' = RemoveAt(inflight, i)
    /\ lastOp' = Op("loginFail", inflight[i], err)
    /\ UNCHANGED <<phase, store, isAuthenticated, token, now, nextId, everLoggedIn, loggedOutSeen>>
    /\ Rerender

\* Mutant of LogoutClick: the logout is skipped while a renewal is in flight.
LogoutClickWaitsForRenewal ==
    /\ phase = "running"
    /\ rendered.view = "app"
    /\ IF NumRefreshInFlight(inflight) > 0
       THEN UNCHANGED <<store, token, isAuthenticated, loggedOutSeen, inflight>>
       ELSE logout /\ inflight' = MarkStale(inflight)
    /\ lastOp' = Op("logout", NoReq, "")
    /\ UNCHANGED <<phase, error, loading, now, nextId, everLoggedIn>>
    /\ Rerender

\* The Logout link of App: keycloak.logout().
LogoutClick ==
    /\ phase = "running"
    /\ rendered.view = "app"
    /\ logout
    /\ inflight' = MarkStale(inflight)
    /\ lastOp' = Op("logout", NoReq, "")
    /\ UNCHANGED <<phase, error, loading, now, nextId, everLoggedIn>>
    /\ Rerender

\* Mutant of updateToken: returns false without posting the refresh grant.
updateTokenNeverPosts == UNCHANGED inflight

\* keycloak.updateToken up to the await: the refresh token is read from
\* localStorage; without one the call returns false, else the refresh grant
\* is posted.  minValidity is not used.
updateToken ==
    LET refreshTokenValue == store.refresh_token
    IN  IF refreshTokenValue = NoRefresh
        THEN UNCHANGED inflight
        ELSE /\ NumRefreshInFlight(inflight) < MaxInflight
             /\ inflight' = Append(inflight, Request("timer", refreshTokenValue))

\* The interval of App fires, 30 s after the previous firing.
Tick ==
    /\ phase = "running"
    /\ timers > 0
    /\ now < MaxTicks * Interval
    /\ now' = now + Interval
    /\ updateToken
    /\ lastOp' = Op("tick", NoReq, "")
    /\ lastSent' = {}
    /\ UNCHANGED <<phase, store, isAuthenticated, token, error, loading, rendered,
                   timers, nextId, everLoggedIn, loggedOutSeen, logoutNotifs>>
    /\ api' = StillFollowed(api, now')

\* Mutant of RefreshSuccess: the success path also calls setIsAuthenticated(true).
RefreshSuccessAuthenticates(i) ==
    /\ inflight[i].kind \in RefreshKinds
    /\ nextId <= MaxTokens
    /\ \E r \in Responses(now, nextId) :
           saveResponse(r.access_token, r.refresh_token)
    /\ isAuthenticated' = TRUE
    /\ inflight' = RemoveAt(inflight, i)
    /\ nextId' = nextId + 1
    /\ lastOp' = Op("refreshOk", inflight[i], "")
    /\ UNCHANGED <<phase, error, loading, now, everLoggedIn, loggedOutSeen>>
    /\ Rerender

\* A refresh grant succeeds: refreshToken() / updateToken() after the await.
RefreshSuccess(i) ==
    /\ inflight[i].kind \in RefreshKinds
    /\ nextId <= MaxTokens
    /\ \E r \in Responses(now, nextId) :
           saveResponse(r.access_token, r.refresh_token)
    /\ inflight' = RemoveAt(inflight, i)
    /\ nextId' = nextId + 1
    /\ lastOp' = Op("refreshOk", inflight[i], "")
    /\ UNCHANGED <<phase, isAuthenticated, error, loading, now, everLoggedIn, loggedOutSeen>>
    /\ Rerender

\* Mutant of RefreshFailure: the failure is swallowed without logout().
RefreshFailureSwallowed(i, err) ==
    /\ inflight[i].kind \in RefreshKinds
    /\ inflight' = RemoveAt(inflight, i)
    /\ lastOp' = Op("refreshFail", inflight[i], err)
    /\ UNCHANGED <<phase, store, isAuthenticated, token, error, loading, now, nextId,
                   everLoggedIn, loggedOutSeen>>
    /\ Rerender

\* A refresh grant fails.  updateToken's catch calls logout(); refreshToken's
\* catch returns false and checkTokenValidity then calls logout().
RefreshFailure(i, err) ==
    /\ inflight[i].kind \in RefreshKinds
    /\ logout
    /\ inflight' = MarkStale(RemoveAt(inflight, i))
    /\ lastOp' = Op("refreshFail", inflight[i], err)
    /\ UNCHANGED <<phase, error, loading, now, nextId, everLoggedIn>>
    /\ Rerender

\* Time passes while no interval is set.
Wait ==
    /\ phase = "running"
    /\ timers = 0
    /\ now < MaxTicks * Interval
    /\ now' = now + Interval
    /\ lastOp' = Op("wait", NoReq, "")
    /\ lastSent' = {}
    /\ UNCHANGED <<phase, store, isAuthenticated, token, error, loading, inflight,
                   rendered, timers, nextId, everLoggedIn, loggedOutSeen, logoutNotifs>>
    /\ api' = StillFollowed(api, now')

\* The page is reloaded: the JavaScript state is lost, localStorage is kept.
Restart ==
    /\ phase = "running"
    /\ phase' = "constructed"
    /\ isAuthenticated' = FALSE
    /\ token' = NoToken
    /\ error' = ""
    /\ loading' = FALSE
    /\ inflight' = <<>>
    /\ rendered' = Render(FALSE, NoToken)
    /\ timers' = 0
    /\ loggedOutSeen' = FALSE
    /\ logoutNotifs' = 0
    /\ lastOp' = Op("restart", NoReq, "")
    /\ api' = {}
    /\ lastSent' = {}
    /\ UNCHANGED <<store, now, nextId, everLoggedIn>>

\* Everything the provider owns; the handlers of App leave it alone.
providerVars == <<phase, store, isAuthenticated, token, error, loading, inflight,
                  rendered, timers, now, nextId, everLoggedIn, loggedOutSeen, logoutNotifs>>

\* The Upload button of App with a file selected: handleUpload() up to the
\* await, with the token of the render the handler belongs to.
HandleUpload ==
    /\ phase = "running"
    /\ rendered.view = "app"
    /\ lastSent' = {ApiRequest("upload", Bearer(rendered.token))}
    /\ api' \in Follow(api, lastSent', now)
    /\ lastOp' = Op("upload", NoReq, "")
    /\ UNCHANGED providerVars

\* What the continuation of a downstream request sends when the request
\* succeeds: handleUpload ends with fetchFiles(), the fetchFiles of the
\* render handleUpload was created in, hence with the same token.
FollowUp(r) ==
    IF r.kind = "upload" THEN {ApiRequest("files", r.bearer)} ELSE {}

\* A downstream request succeeds.
ApiSuccess(r) ==
    /\ phase = "running"
    /\ r \in api
    /\ lastSent' = FollowUp(r)
    /\ api' \in Follow(api \ {r}, lastSent', now)
    /\ lastOp' = Op("apiOk", NoReq, "")
    /\ UNCHANGED providerVars

\* A downstream request fails: the catch of fetchFiles / fetchUserRole /
\* handleUpload reports the error; nothing is renewed and nothing is resent.
ApiFailure(r, err) ==
    /\ phase = "running"
    /\ r \in api
    /\ lastSent' = {}
    /\ api' = api \ {r}
    /\ lastOp' = Op("apiFail", NoReq, err)
    /\ UNCHANGED providerVars

Next ==
    \/ InitialEffect
    \/ LoginSubmit
    \/ \E i \in 1..Len(inflight) : LoginSuccess(i)
    \/ \E i \in 1..Len(inflight) : \E err \in LoginErrors : LoginFailure(i, err)
    \/ LogoutClick
    \/ Tick
    \/ \E i \in 1..Len(inflight) : RefreshSuccess(i)
    \/ \E i \in 1..Len(inflight) : \E err \in RefreshErrors : RefreshFailure(i, err)
    \/ Wait
    \/ Restart
    \/ HandleUpload
    \/ \E r \in api : ApiSuccess(r)
    \/ \E r \in api : \E err \in ApiErrors : ApiFailure(r, err)

Spec == Init /\ [][Next]_vars

\* The browser's scheduling: the mount effect runs, time passes and a set
\* interval fires.  Nothing obliges the identity provider to answer or the
\* user to act.
SpecNoAnswer ==
    Spec /\ WF_vars(InitialEffect) /\ WF_vars(Tick) /\ WF_vars(Wait)

----------------------------------------------------------------------------
(* The session state of the specification, read off the component's state *)

LoginInFlight == \E j \in 1..Len(inflight) : inflight[j].kind = "login"

SessionState ==
    IF isAuthenticated
    THEN IF NumRefreshInFlight(inflight) > 0 THEN "Renewing" ELSE "Authenticated"
    ELSE IF LoginInFlight THEN "Authenticating" ELSE "LoggedOut"

\* An access token that follows the identity provider's contract: three
\* segments, a base64url JSON payload, an exp claim.
ValidJwt(tok) ==
    /\ tok.shape.segs = 3
    /\ tok.shape.enc \in {"b64", "b64url"}
    /\ tok.shape.exp # NoExp

\* An access token with a structural defect in the sense of the token codec:
\* wrong segment count, payload not decodable, or no exp claim.
Defective(tok) ==
    /\ tok # NoToken
    /\ (tok.shape.segs # 3 \/ tok.shape.enc = "bad" \/ tok.shape.exp = NoExp)

\* The step is the mount effect of a page load.
MountStep == phase = "constructed" /\ phase' = "running"

NumLoginInFlight == Cardinality({j \in 1..Len(inflight) : inflight[j].kind = "login"})

\* The store holds an access token and the refresh token issued with it.
PairedStore(s) == s.token # NoToken /\ s.refresh_token = s.token.id

----------------------------------------------------------------------------
TypeOK ==
    /\ phase \in {"constructed", "running"}
    /\ isAuthenticated \in BOOLEAN
    /\ loading \in BOOLEAN
    /\ timers \in 0..1
    /\ Len(inflight) <= MaxInflight + 1
    /\ Cardinality(api) <= MaxApi
    /\ \A r \in api \cup lastSent :
          r.kind \in {"files", "role", "upload"} /\ r.bearer \in -1..MaxTokens

----------------------------------------------------------------------------
(* Claims *)

\* C1: at most one refresh-grant request is in flight at any instant; a
\* renewal trigger arriving while one is in flight sends no second request.
C1_AtMostOneRenewalInFlight == NumRefreshInFlight(inflight) <= 1

\* C2: the result of a renewal request that was in flight when logout() was
\* called is discarded on arrival: it changes neither the authentication
\* state, the in-memory token nor the stored entries.
C2_StaleRenewalDiscarded ==
    [][(lastOp'.op \in {"refreshOk", "refreshFail"} /\ lastOp'.req.stale)
          => (isAuthenticated' = isAuthenticated /\ token' = token /\ store' = store)]_vars

\* C3: a timer-triggered renewal of the running session that fails with
\* NetworkUnavailable, no failure having occurred before, leaves the session
\* Authenticated with the previous tokens in memory and in the store.
C3_SoftFailureKeepsSession ==
    [][(/\ lastOp'.op = "refreshFail"
        /\ lastOp'.req.kind = "timer"
        /\ lastOp'.err = "NetworkUnavailable"
        /\ ~lastOp'.req.stale
        /\ ~loggedOutSeen
        /\ isAuthenticated)
          => (isAuthenticated' /\ token' = token /\ store' = store)]_vars

\* C4: a renewal rejected as RenewalTokenExpired leaves the session without
\* credential (LoggedOut when the renewal belongs to the running session),
\* both stored entries removed, and the children have seen exactly one
\* transition into LoggedOut since they were last mounted, also when it is
\* not the first renewal to fail.
C4_HardFailureLogsOutOnce ==
    [][(lastOp'.op = "refreshFail" /\ lastOp'.err = "RenewalTokenExpired")
          => (/\ ~isAuthenticated'
              /\ token' = NoToken
              /\ store' = EmptyStore
              /\ rendered'.view = "form"
              /\ logoutNotifs' = 1
              /\ (~lastOp'.req.stale => SessionState' = "LoggedOut"))]_vars

\* C4 witness: a second renewal has failed with RenewalTokenExpired after a
\* first failure already logged the session out.
C4_Witness ==
    /\ lastOp.op = "refreshFail"
    /\ lastOp.err = "RenewalTokenExpired"
    /\ lastOp.req.stale
    /\ logoutNotifs = 1
    /\ store = EmptyStore

\* C5: whenever the session is LoggedOut after a logout or forced logout,
\* the store holds neither token and the in-memory token is null.
C5_NoPartialLogout ==
    (phase = "running" /\ loggedOutSeen /\ SessionState = "LoggedOut")
        => (store = EmptyStore /\ token = NoToken)

\* C6: the context value with the token is exposed to the children only
\* while the session is Authenticated or Renewing, never while it is
\* LoggedOut or Authenticating.
C6_CredentialOnlyWhileAuthenticated ==
    SessionState \in {"LoggedOut", "Authenticating"}
        => (rendered.view = "form" /\ rendered.token = NoToken)

\* C6 witness: the session is LoggedOut while the component still holds a
\* token in memory (left by a late renewal response) and renders the form.
C6_Witness ==
    /\ phase = "running"
    /\ SessionState = "LoggedOut"
    /\ token # NoToken
    /\ rendered.view = "form"

\* C7: the access token the children see is the stored one, and right after
\* a login or renewal success both tokens of the response are in the store.
C7_SavedBeforeVisible ==
    /\ rendered.view = "app" => rendered.token = store.token
    /\ (lastOp.op \in {"loginOk", "refreshOk"} /\ rendered.view = "app")
          => (rendered.token.id > 0 /\ PairedStore(store))

\* C7 witness: the children see the access token of a renewal response.
C7_Witness ==
    /\ lastOp.op = "refreshOk"
    /\ rendered.view = "app"
    /\ rendered.token.id > 0
    /\ store.token = rendered.token

\* C8: after the first successful login the store holds either no entry or
\* an access token together with the refresh token of the same response.
C8_StoreHoldsOnePair ==
    everLoggedIn => (store = EmptyStore \/ PairedStore(store))

\* C8 witness: a renewal response has been saved while another renewal
\* request is still in flight.
C8_Witness ==
    /\ everLoggedIn
    /\ lastOp.op = "refreshOk"
    /\ NumRefreshInFlight(inflight) > 0
    /\ PairedStore(store)

\* C9: a page reload right after a valid credential was saved by a login or
\* renewal loads the same two tokens and resumes the session with that
\* access token.
C9_RoundTripThroughStore ==
    [][(/\ phase = "constructed"
        /\ phase' = "running"
        /\ store.token.id > 0
        /\ PairedStore(store)
        /\ ValidJwt(store.token))
          => (store' = store /\ token' = store.token /\ isAuthenticated')]_vars

\* C10: a successful login leaves the session Authenticated, and when the
\* timer fires while the session is Authenticated with a credential inside
\* the 5 minute margin, a refresh grant with the renewal token of the held
\* credential is started.
C10_TimerStartsRenewal ==
    [][/\ lastOp'.op = "loginOk" => isAuthenticated'
       /\ (/\ lastOp'.op = "tick"
           /\ everLoggedIn
           /\ isAuthenticated
           /\ NearExpiry(token, now'))
             => (/\ store.refresh_token = token.id
                 /\ inflight' = Append(inflight, Request("timer", token.id)))]_vars

\* C10 witness: the timer has fired on a session opened by a login whose
\* credential is inside the margin, and a refresh grant is in flight.
C10_Witness ==
    /\ lastOp.op = "tick"
    /\ everLoggedIn
    /\ isAuthenticated
    /\ token.id > 0
    /\ NearExpiry(token, now)
    /\ \E j \in 1..Len(inflight) : inflight[j] = Request("timer", token.id)

\* C11: at most one renewal timer is active in every state, exactly one
\* while the session is Authenticated or Renewing, and none while it is
\* LoggedOut or Authenticating, also after a forced logout.
C11_OneTimerPerSession ==
    /\ timers <= 1
    /\ (phase = "running" /\ isAuthenticated) => timers = 1
    /\ ~isAuthenticated => timers = 0

\* C11 witness: a failed renewal has forced the logout of a session whose
\* children were mounted, and no timer is left.
C11_Witness ==
    /\ lastOp.op = "refreshFail"
    /\ logoutNotifs = 1
    /\ ~isAuthenticated
    /\ timers = 0

\* C12: at an instant where the renewal trigger would fire (an interval
\* elapses) while the session is LoggedOut or Authenticating, no request to
\* the identity provider is started and neither the state nor the store
\* changes.
C12_TriggerWhileLoggedOutIsNoOp ==
    [][(phase = "running" /\ ~isAuthenticated /\ now' # now)
          => UNCHANGED <<store, isAuthenticated, token, error, loading, inflight, rendered>>]_vars

\* C12 witness: an interval has elapsed while a login was in flight and the
\* store held a refresh token a renewal could have been sent with.
C12_Witness ==
    /\ lastOp.op = "wait"
    /\ SessionState = "Authenticating"
    /\ store.refresh_token # NoRefresh
    /\ NumRefreshInFlight(inflight) = 0

\* C13: identity-provider calls have a bounded wait: a login in flight is
\* eventually over and a renewal in flight is eventually resolved, also when
\* the identity provider never answers.
C13_BoundedWait ==
    /\ LoginInFlight ~> ~LoginInFlight
    /\ (NumRefreshInFlight(inflight) > 0) ~> (NumRefreshInFlight(inflight) = 0)

\* C14: a timer tick while the session is Authenticated and the credential
\* is at least the safety margin away from expiry sends no refresh grant.
C14_NoRenewalOutsideMargin ==
    [][(/\ lastOp'.op = "tick"
        /\ isAuthenticated
        /\ token.shape.exp # NoExp
        /\ token.shape.exp * 1000 - now' >= Margin)
          => inflight' = inflight]_vars

\* C15: a failed password grant returns the session to LoggedOut with an
\* error message and leaves the store and the in-memory token as they were.
C15_LoginFailureFrame ==
    [][lastOp'.op = "loginFail"
          => (/\ SessionState' = "LoggedOut"
              /\ ~loading'
              /\ error' # ""
              /\ store' = store
              /\ token' = token)]_vars

\* C15 witness: a login has failed while the store and the in-memory token
\* were not empty, and both are still there.
C15_Witness ==
    /\ lastOp.op = "loginFail"
    /\ error = LoginErrorMessage
    /\ store # EmptyStore
    /\ token # NoToken
    /\ SessionState = "LoggedOut"

\* C16: at process start with a stored credential, a token outside the
\* 5 minute margin gives Authenticated with no identity-provider call; a
\* token inside it gives exactly one refresh attempt with the stored renewal
\* token, after which the session is Authenticated with the new credential
\* on success, or LoggedOut with the store cleared on failure.
C16_StartupCheck ==
    [][/\ (/\ MountStep
           /\ store.token # NoToken
           /\ store.refresh_token # NoRefresh
           /\ ValidJwt(store.token))
             => IF NearExpiry(store.token, now)
                THEN inflight' = <<Request("startup", store.refresh_token)>>
                ELSE /\ isAuthenticated'
                     /\ token' = store.token
                     /\ store' = store
                     /\ inflight' = <<>>
       /\ (lastOp'.op = "refreshOk" /\ lastOp'.req.kind = "startup" /\ ~lastOp'.req.stale)
             => (isAuthenticated' /\ token'.id = nextId /\ PairedStore(store'))
       /\ (lastOp'.op = "refreshFail" /\ lastOp'.req.kind = "startup" /\ ~lastOp'.req.stale)
             => (SessionState' = "LoggedOut" /\ store' = EmptyStore)]_vars

\* C17: at process start a stored access token with a structural defect
\* ends in LoggedOut with both entries removed and no login error shown.
C17_MalformedStoredToken ==
    [][(MountStep /\ Defective(store.token))
          => (~isAuthenticated' /\ store' = EmptyStore /\ error' = "")]_vars

\* C18: whenever the session is Authenticated with an access token returned
\* by a password or refresh grant, that token decodes successfully.
C18_AuthenticatedTokenDecodes ==
    (phase = "running" /\ isAuthenticated /\ token.id > 0) => ValidJwt(token)

\* C19: at process start, if the access token entry or the refresh token
\* entry is absent, the session starts LoggedOut and the children are not
\* rendered.
C19_MissingEntryMeansNoSession ==
    [][(MountStep /\ (store.token = NoToken \/ store.refresh_token = NoRefresh))
          => (~isAuthenticated' /\ rendered'.view = "form")]_vars

\* C20: no missed renewals: every firing of the timer while the session is
\* Authenticated with a credential inside the margin leaves a renewal
\* request in flight, also when the store holds no renewal token.
C20_NoMissedRenewal ==
    [][(/\ lastOp'.op = "tick"
        /\ isAuthenticated
        /\ NearExpiry(token, now'))
          => NumRefreshInFlight(inflight') > 0]_vars

\* C21: logout() called while the session is Authenticated or Renewing
\* leaves it LoggedOut at once, with both stored entries removed and the
\* in-memory token null, whatever renewal is in flight.
C21_LogoutIsImmediate ==
    [][lastOp'.op = "logout"
          => (/\ SessionState' = "LoggedOut"
              /\ store' = EmptyStore
              /\ token' = NoToken
              /\ rendered'.view = "form")]_vars

\* C21 witness: Logout has been clicked while a renewal was in flight.
C21_Witness ==
    /\ lastOp.op = "logout"
    /\ NumRefreshInFlight(inflight) > 0
    /\ SessionState = "LoggedOut"
    /\ store = EmptyStore

\* C24: once the startup load has run, the in-memory access token equals the
\* stored access token (both absent or the same value).
C24_TokenEqualsStoredToken ==
    phase = "running" => token = store.token

\* C24 witness: the response of a renewal sent by an earlier session has
\* replaced the tokens of a session opened by a later login.
C24_Witness ==
    /\ lastOp.op = "refreshOk"
    /\ lastOp.req.stale
    /\ isAuthenticated
    /\ token.id > 0
    /\ token = store.token

\* C25: the session becomes Authenticated only by a successful login or by
\* the startup load; a refresh completion never turns a session that is not
\* Authenticated into an Authenticated one.
C25_AuthenticatedOnlyByLoginOrLoad ==
    [][(~isAuthenticated /\ isAuthenticated') => lastOp'.op \in {"loginOk", "mount"}]_vars

\* C25 witness: a refresh has succeeded while the session was LoggedOut and
\* the session is still LoggedOut.
C25_Witness ==
    /\ lastOp.op = "refreshOk"
    /\ phase = "running"
    /\ ~isAuthenticated
    /\ store.token # NoToken

\* C26: whenever the session is Authenticated the in-memory access token,
\* and the one in the context value of the children, is not null.
C26_AuthenticatedHasToken ==
    /\ isAuthenticated => token # NoToken
    /\ rendered.view = "app" => rendered.token # NoToken

\* C26 witness: the session has been resumed from the stored token at page
\* load and the children see that token.
C26_Witness ==
    /\ lastOp.op = "mount"
    /\ isAuthenticated
    /\ rendered.view = "app"
    /\ rendered.token = store.token
    /\ rendered.token # NoToken

\* C27: at most one password grant is in flight, loading is true exactly
\* while one is in flight, and no login is submitted while loading is true.
C27_OneLoginInFlight ==
    [][/\ NumLoginInFlight' <= 1
       /\ loading' <=> (NumLoginInFlight' = 1)
       /\ (lastOp'.op = "login" /\ phase = "running") => ~loading]_vars

\* C27 witness: a login has been submitted after an earlier login succeeded
\* and reset the loading flag, and exactly one password grant is in flight.
C27_Witness ==
    /\ lastOp.op = "login"
    /\ everLoggedIn
    /\ loading
    /\ NumLoginInFlight = 1

\* C22: when a downstream service rejects a request for authorization
\* reasons while the session is Authenticated, the caller starts one renewal
\* and sends the request again once.
C22_RenewAndRetryOnRejection ==
    [][(lastOp'.op = "apiFail" /\ lastOp'.err = "Unauthorized" /\ isAuthenticated)
          => (/\ NumRefreshInFlight(inflight') = NumRefreshInFlight(inflight) + 1
              /\ Cardinality(lastSent') = 1)]_vars

\* C23: every request sent to a downstream service while the session is
\* Authenticated carries the access token that is current when the request
\* is sent, also the fetchFiles at the end of handleUpload when a renewal
\* replaced the token while the upload was in flight.
C23_RequestsCarryCurrentToken ==
    [][isAuthenticated' => \A r \in lastSent' : r.bearer = Bearer(token')]_vars

====
